---- MODULE Spec2Model ----
(***************************************************************************)
(* Para_Q_Root_calc.c: m POSIX threads sum the fourth roots of 1..n, each  *)
(* over its own sub-range, and combine the partial sums by a barrier-gated *)
(* tree reduction.  The model covers main (validation, allocation, launch, *)
(* join, cleanup and the failure exits) and compute_quadruple_roots.       *)
(*                                                                         *)
(* A double is modelled by the expression that built it, in prefix form:   *)
(* <<0>> is 0.0, <<k>> (k > 0) is pow(k, 0.25) and <<-1>> \o a \o b is the *)
(* floating-point sum a + b.  The empty sequence is an uninitialised slot. *)
(* The int values of the model stay far below INT_MAX at the bounds used.  *)
(***************************************************************************)
EXTENDS Integers, Sequences, FiniteSets, TLC

MaxM == 3
MaxN == 4
IntBits == 4   \* width of int in IntSpec, scaled down from 32

VARIABLES
  m, n,            \* main: atoi(argv[1]), atoi(argv[2])
  mainpc,          \* position of main
  i,               \* main: loop counter of the create loop and the join loop
  outcome,         \* "none" while the process runs, else how it ended
  tableSt,         \* partial_sums storage: "none", "alloc", "freed"
  partial_sums,    \* the slots of the table
  barrierSt,       \* barrier: "uninit", "init", "destroyed"
  parties,         \* barrier: count given to pthread_barrier_init
  arrivals,        \* barrier: threads currently waiting
  generation,      \* barrier: number of releases so far
  threadsSt,       \* threads array: "none", "alloc", "null", "freed"
  argsSt,          \* thread_args array: "none", "alloc", "null", "freed"
  thread_args,     \* contents of thread_args
  wpc,             \* position of each worker thread
  tid, w_m, w_n,   \* worker locals read from args
  start, end,      \* worker locals: assigned range
  local_sum,       \* worker local
  step,            \* worker local
  acc,             \* worker: value of partial_sums[tid] + partial_sums[tid+step] before it is stored
  seen,            \* worker: barrier generation observed on arrival
  arr,             \* history: number of pthread_barrier_wait calls made by each worker
  waits,           \* history: number of pthread_barrier_wait calls each worker returned from
  reports,         \* output: per-worker "partial sum" lines printed, by printing thread
  total,           \* output: "Total sum" lines printed
  uaf,             \* history: some thread touched freed memory
  loop_i,          \* worker local: the counter i of the summation loop (IntSpec)
  ovf,             \* history: an int expression left the range of int (IntSpec)
  rd, wr           \* history: readers/writers of each slot since the last barrier release

vars == <<m, n, mainpc, i, outcome, tableSt, partial_sums, barrierSt, parties,
          arrivals, generation, threadsSt, argsSt, thread_args, wpc, tid, w_m,
          w_n, start, end, local_sum, step, acc, seen, arr, waits, reports,
          total, uaf, loop_i, ovf, rd, wr>>

mainVars == <<m, n, mainpc, i, threadsSt, argsSt, thread_args>>
workerLocals == <<tid, w_m, w_n, start, end, local_sum, step, acc>>
barrierVars == <<barrierSt, parties, arrivals, generation>>
intVars == <<loop_i, ovf>>

RECURSIVE Pow2(_)
Pow2(k) == IF k <= 0 THEN 1 ELSE 2 * Pow2(k - 1)

----------------------------------------------------------------------------
(* Floating-point values as expressions *)

Uninit == <<>>
FZero == <<0>>
FPow(k) == <<k>>
FAdd(a, b) == <<-1>> \o a \o b

\* number of times pow(k, 0.25) occurs in the expression v
Count(v, k) == Cardinality({p \in 1..Len(v) : v[p] = k})

----------------------------------------------------------------------------
(* Pure pieces of compute_quadruple_roots *)

\* mutant: the "+ 1" of line 32 dropped
RangeStartNoPlusOne(t, mm, nn) == t * (nn \div mm)

RangeStart(t, mm, nn) == t * (nn \div mm) + 1

\* mutant: the test of line 36 against m instead of m - 1
RangeEndLastOffByOne(t, mm, nn) == IF t = mm THEN nn ELSE (t + 1) * (nn \div mm)

\* mutant: the last-thread correction of lines 36-38 dropped
RangeEndNoRemainder(t, mm, nn) == (t + 1) * (nn \div mm)

RangeEnd(t, mm, nn) == IF t = mm - 1 THEN nn ELSE (t + 1) * (nn \div mm)

\* mutant: the loop of lines 42-44 as a do-while, the body runs at least once
RECURSIVE SumLoopDoWhile(_, _, _)
SumLoopDoWhile(k, e, s) ==
  IF k <= e \/ s = FZero THEN SumLoopDoWhile(k + 1, e, FAdd(s, FPow(k))) ELSE s

\* for (int i = start; i <= end; i++) local_sum += pow(i, 0.25);
RECURSIVE SumLoop(_, _, _)
SumLoop(k, e, s) == IF k <= e THEN SumLoop(k + 1, e, FAdd(s, FPow(k))) ELSE s

\* mutant: the activity test of line 70 taken modulo step
ActiveModStep(t, s) == t % s = 0

Active(t, s) == t % (2 * s) = 0

\* mutant: the partner test of line 72 off by one
HasPartnerOffByOne(t, s, mm) == t + s < mm - 1

HasPartner(t, s, mm) == t + s < mm

\* mutants: line 82 as step += 2 and as step += 1
NextStepPlusTwo(s) == s + 2
NextStepPlusOne(s) == s + 1

NextStep(s) == s * 2

\* mutant: the loop test of line 68 with <=
InLoopInclusive(s, mm) == s <= mm

InLoop(s, mm) == s < mm

\* mutant: the test of line 89 dropped, every thread prints the total
PrintsTotalAlways(t) == TRUE

PrintsTotal(t) == t = 0

----------------------------------------------------------------------------
(* Pure pieces of main *)

\* mutant: line 111 without the test of n
ValidArgsOnlyM(mm, nn) == ~(mm <= 0)

ValidArgs(mm, nn) == ~(mm <= 0 \/ nn <= 0)

\* mutants: line 127 with a wrong count
BarrierCountMinusOne(mm) == mm - 1
BarrierCountOne(mm) == 1
BarrierCountPlusOne(mm) == mm + 1

BarrierCount(mm) == mm

Workers == 0..(m - 1)

Running == outcome = "none"

\* the state at program start, but for the arguments and the threads
InitRest ==
  /\ mainpc = "validate"
  /\ i = 0
  /\ outcome = "none"
  /\ tableSt = "none"
  /\ partial_sums = <<>>
  /\ barrierSt = "uninit"
  /\ parties = 0
  /\ arrivals = 0
  /\ generation = 0
  /\ threadsSt = "none"
  /\ argsSt = "none"
  /\ thread_args = [t \in Workers |-> Uninit]
  /\ tid = [t \in Workers |-> 0]
  /\ w_m = [t \in Workers |-> 0]
  /\ w_n = [t \in Workers |-> 0]
  /\ start = [t \in Workers |-> 0]
  /\ end = [t \in Workers |-> 0]
  /\ local_sum = [t \in Workers |-> Uninit]
  /\ step = [t \in Workers |-> 0]
  /\ acc = [t \in Workers |-> Uninit]
  /\ seen = [t \in Workers |-> 0]
  /\ arr = [t \in Workers |-> 0]
  /\ waits = [t \in Workers |-> 0]
  /\ reports = [t \in Workers |-> <<>>]
  /\ total = <<>>
  /\ uaf = FALSE
  /\ rd = [s \in Workers |-> {}]
  /\ wr = [s \in Workers |-> {}]
  /\ loop_i = [t \in Workers |-> 0]
  /\ ovf = FALSE

Init ==
  /\ m \in (-1)..MaxM
  /\ n \in (-1)..MaxN
  /\ wpc = [t \in Workers |-> "notcreated"]
  /\ InitRest

----------------------------------------------------------------------------
(* main *)

\* lines 107-114: reject non-positive arguments
Validate ==
  /\ UNCHANGED intVars
  /\ Running /\ mainpc = "validate"
  /\ IF ValidArgs(m, n)
       THEN /\ mainpc' = "alloc_table"
            /\ outcome' = outcome
       ELSE /\ mainpc' = "exit"
            /\ outcome' = "InvalidArgument"
  /\ UNCHANGED <<m, n, i, tableSt, partial_sums, barrierVars, threadsSt, argsSt,
                 thread_args, wpc, workerLocals, seen, arr, waits, reports,
                 total, uaf, rd, wr>>

\* lines 120-124: malloc of the table, which may fail
AllocTable ==
  /\ UNCHANGED intVars
  /\ Running /\ mainpc = "alloc_table"
  /\ \E ok \in BOOLEAN :
       IF ok
         THEN /\ tableSt' = "alloc"
              /\ partial_sums' = [s \in Workers |-> Uninit]
              /\ mainpc' = "init_barrier"
              /\ outcome' = outcome
         ELSE /\ mainpc' = "exit"
              /\ outcome' = "AllocationFailure"
              /\ UNCHANGED <<tableSt, partial_sums>>
  /\ UNCHANGED <<m, n, i, barrierVars, threadsSt, argsSt, thread_args, wpc,
                 workerLocals, seen, arr, waits, reports, total, uaf, rd, wr>>

\* line 127: pthread_barrier_init(&barrier, NULL, m)
InitBarrier ==
  /\ UNCHANGED intVars
  /\ Running /\ mainpc = "init_barrier"
  /\ barrierSt' = "init"
  /\ parties' = BarrierCount(m)
  /\ arrivals' = 0
  /\ mainpc' = "alloc_arrays"
  /\ UNCHANGED <<m, n, i, outcome, tableSt, partial_sums, generation, threadsSt,
                 argsSt, thread_args, wpc, workerLocals, seen, arr, waits,
                 reports, total, uaf, rd, wr>>

\* lines 130-137: the two mallocs, each of which may fail; on a failure only
\* partial_sums is freed before the return
AllocArrays ==
  /\ UNCHANGED intVars
  /\ Running /\ mainpc = "alloc_arrays"
  /\ \E okT \in BOOLEAN, okA \in BOOLEAN :
       /\ threadsSt' = IF okT THEN "alloc" ELSE "null"
       /\ argsSt' = IF okA THEN "alloc" ELSE "null"
       /\ IF okT /\ okA
            THEN /\ mainpc' = "create"
                 /\ UNCHANGED <<tableSt, outcome>>
            ELSE /\ tableSt' = "freed"
                 /\ mainpc' = "exit"
                 /\ outcome' = "AllocationFailure"
  /\ i' = 0
  /\ UNCHANGED <<m, n, partial_sums, barrierVars, thread_args, wpc,
                 workerLocals, seen, arr, waits, reports, total, uaf, rd, wr>>

\* lines 140-152: one iteration of the create loop; pthread_create may fail
Create ==
  /\ UNCHANGED intVars
  /\ Running /\ mainpc = "create" /\ i < m
  /\ thread_args' = [thread_args EXCEPT ![i] =
                       [thread_id |-> i, total_threads |-> m, max_number |-> n]]
  /\ \E ok \in BOOLEAN :
       IF ok
         THEN /\ wpc' = [wpc EXCEPT ![i] = "entry"]
              /\ i' = IF i + 1 < m THEN i + 1 ELSE 0
              /\ mainpc' = IF i + 1 < m THEN "create" ELSE "join"
         ELSE /\ mainpc' = "fail_free_table"
              /\ UNCHANGED <<wpc, i>>
  /\ UNCHANGED <<m, n, outcome, tableSt, partial_sums, barrierVars, threadsSt,
                 argsSt, workerLocals, seen, arr, waits, reports, total, uaf,
                 rd, wr>>

\* line 147: free(partial_sums) on the creation-failure path
FailFreeTable ==
  /\ UNCHANGED intVars
  /\ Running /\ mainpc = "fail_free_table"
  /\ tableSt' = "freed"
  /\ mainpc' = "fail_free_threads"
  /\ UNCHANGED <<m, n, i, outcome, partial_sums, barrierVars, threadsSt, argsSt,
                 thread_args, wpc, workerLocals, seen, arr, waits, reports,
                 total, uaf, rd, wr>>

\* line 148: free(threads)
FailFreeThreads ==
  /\ UNCHANGED intVars
  /\ Running /\ mainpc = "fail_free_threads"
  /\ threadsSt' = "freed"
  /\ mainpc' = "fail_free_args"
  /\ UNCHANGED <<m, n, i, outcome, tableSt, partial_sums, barrierVars, argsSt,
                 thread_args, wpc, workerLocals, seen, arr, waits, reports,
                 total, uaf, rd, wr>>

\* line 149: free(thread_args)
FailFreeArgs ==
  /\ UNCHANGED intVars
  /\ Running /\ mainpc = "fail_free_args"
  /\ argsSt' = "freed"
  /\ mainpc' = "fail_return"
  /\ UNCHANGED <<m, n, i, outcome, tableSt, partial_sums, barrierVars,
                 threadsSt, thread_args, wpc, workerLocals, seen, arr, waits,
                 reports, total, uaf, rd, wr>>

\* line 150: return 1; the process exits and every thread stops with it
FailReturn ==
  /\ UNCHANGED intVars
  /\ Running /\ mainpc = "fail_return"
  /\ mainpc' = "exit"
  /\ outcome' = "WorkerLaunchFailure"
  /\ UNCHANGED <<m, n, i, tableSt, partial_sums, barrierVars, threadsSt, argsSt,
                 thread_args, wpc, workerLocals, seen, arr, waits, reports,
                 total, uaf, rd, wr>>

\* lines 155-157: pthread_join(threads[i]) returns once worker i has returned
Join ==
  /\ UNCHANGED intVars
  /\ Running /\ mainpc = "join" /\ i < m
  /\ wpc[i] = "done"
  /\ i' = IF i + 1 < m THEN i + 1 ELSE 0
  /\ mainpc' = IF i + 1 < m THEN "join" ELSE "cleanup"
  /\ UNCHANGED <<m, n, outcome, tableSt, partial_sums, barrierVars, threadsSt,
                 argsSt, thread_args, wpc, workerLocals, seen, arr, waits,
                 reports, total, uaf, rd, wr>>

\* lines 160-165: destroy the barrier, free the three arrays, return 0
Cleanup ==
  /\ UNCHANGED intVars
  /\ Running /\ mainpc = "cleanup"
  /\ barrierSt' = "destroyed"
  /\ tableSt' = "freed"
  /\ threadsSt' = "freed"
  /\ argsSt' = "freed"
  /\ mainpc' = "exit"
  /\ outcome' = "Ok"
  /\ UNCHANGED <<m, n, i, partial_sums, parties, arrivals, generation,
                 thread_args, wpc, workerLocals, seen, arr, waits, reports,
                 total, uaf, rd, wr>>

main ==
  \/ Validate \/ AllocTable \/ InitBarrier \/ AllocArrays \/ Create
  \/ FailFreeTable \/ FailFreeThreads \/ FailFreeArgs \/ FailReturn
  \/ Join \/ Cleanup

----------------------------------------------------------------------------
(* compute_quadruple_roots, run by worker thread t *)

\* what a read of thread_args[t] can return once thread_args has been freed:
\* the old contents, or contents whose first word the allocator overwrote
ArgsReadAfterFree(t) ==
  {[thread_args[t] EXCEPT !.thread_id = g] : g \in Workers}

\* lines 24-44 with the argument record a: read tid, m, n, compute the range
\* and the local sum
Begin(t, a) ==
  /\ tid' = [tid EXCEPT ![t] = a.thread_id]
  /\ w_m' = [w_m EXCEPT ![t] = a.total_threads]
  /\ w_n' = [w_n EXCEPT ![t] = a.max_number]
  /\ start' = [start EXCEPT ![t] =
                 RangeStart(a.thread_id, a.total_threads, a.max_number)]
  /\ end' = [end EXCEPT ![t] =
               RangeEnd(a.thread_id, a.total_threads, a.max_number)]
  /\ local_sum' = [local_sum EXCEPT ![t] =
                     SumLoop(RangeStart(a.thread_id, a.total_threads, a.max_number),
                             RangeEnd(a.thread_id, a.total_threads, a.max_number),
                             FZero)]
  /\ wpc' = [wpc EXCEPT ![t] = "store"]
  /\ UNCHANGED <<step, acc>>

\* lines 24-44; the argument record lives in thread_args, which main may
\* already have freed (line 149)
Entry(t) ==
  /\ UNCHANGED intVars
  /\ Running /\ wpc[t] = "entry"
  /\ \/ /\ argsSt = "alloc"
        /\ Begin(t, thread_args[t])
        /\ UNCHANGED <<uaf, outcome>>
     \/ /\ argsSt # "alloc"
        /\ uaf' = TRUE
        /\ \/ /\ \E g \in ArgsReadAfterFree(t) : Begin(t, g)
              /\ UNCHANGED outcome
           \/ /\ outcome' = "Crashed"
              /\ UNCHANGED <<wpc, workerLocals>>
  /\ UNCHANGED <<mainVars, tableSt, partial_sums, barrierVars, seen, arr, waits,
                 reports, total, rd, wr>>

\* line 47: partial_sums[tid] = local_sum; main may already have freed the
\* table (line 147), and then the store goes to freed memory
Store(t) ==
  /\ UNCHANGED intVars
  /\ Running /\ wpc[t] = "store"
  /\ \/ /\ tableSt = "alloc"
        /\ partial_sums' = [partial_sums EXCEPT ![tid[t]] = local_sum[t]]
        /\ wr' = [wr EXCEPT ![tid[t]] = @ \cup {t}]
        /\ wpc' = [wpc EXCEPT ![t] = "report"]
        /\ UNCHANGED <<uaf, outcome>>
     \/ /\ tableSt # "alloc"
        /\ uaf' = TRUE
        /\ \/ /\ wpc' = [wpc EXCEPT ![t] = "report"]
              /\ UNCHANGED outcome
           \/ /\ outcome' = "Crashed"
              /\ UNCHANGED wpc
        /\ UNCHANGED <<partial_sums, wr>>
  /\ UNCHANGED <<mainVars, tableSt, barrierVars, workerLocals, seen, arr, waits,
                 reports, total, rd>>

\* lines 49-50: printf of the worker's range and partial sum
Report(t) ==
  /\ UNCHANGED intVars
  /\ Running /\ wpc[t] = "report"
  /\ reports' = [reports EXCEPT ![t] =
                   Append(@, <<tid[t], start[t], end[t], local_sum[t]>>)]
  /\ wpc' = [wpc EXCEPT ![t] = "barrier"]
  /\ UNCHANGED <<mainVars, outcome, tableSt, partial_sums, barrierVars,
                 workerLocals, seen, arr, waits, total, uaf, rd, wr>>

\* line 67: int step = 1, executed on the return from the wait of line 53
StepOnReturn(t) == [step EXCEPT ![t] = IF waits[t] = 0 THEN 1 ELSE @]

\* lines 53 and 85: the call of pthread_barrier_wait.  The last of `parties'
\* callers releases the round and returns at once; the others block.
BarrierArrive(t) ==
  /\ UNCHANGED intVars
  /\ Running /\ wpc[t] = "barrier" /\ barrierSt = "init"
  /\ arr' = [arr EXCEPT ![t] = @ + 1]
  /\ IF arrivals + 1 = parties
       THEN /\ arrivals' = 0
            /\ generation' = generation + 1
            /\ rd' = [s \in DOMAIN rd |-> {}]
            /\ wr' = [s \in DOMAIN wr |-> {}]
            /\ waits' = [waits EXCEPT ![t] = @ + 1]
            /\ wpc' = [wpc EXCEPT ![t] = "while"]
            /\ step' = StepOnReturn(t)
            /\ UNCHANGED seen
       ELSE /\ arrivals' = arrivals + 1
            /\ seen' = [seen EXCEPT ![t] = generation]
            /\ wpc' = [wpc EXCEPT ![t] = "blocked"]
            /\ UNCHANGED <<generation, rd, wr, waits, step>>
  /\ UNCHANGED <<mainVars, outcome, tableSt, partial_sums, barrierSt, parties,
                 tid, w_m, w_n, start, end, local_sum, acc, reports, total, uaf>>

\* lines 53 and 85: a blocked caller returns once its round has been released
BarrierReturn(t) ==
  /\ UNCHANGED intVars
  /\ Running /\ wpc[t] = "blocked"
  /\ generation # seen[t]
  /\ waits' = [waits EXCEPT ![t] = @ + 1]
  /\ wpc' = [wpc EXCEPT ![t] = "while"]
  /\ step' = StepOnReturn(t)
  /\ UNCHANGED <<mainVars, outcome, tableSt, partial_sums, barrierVars, tid,
                 w_m, w_n, start, end, local_sum, acc, seen, arr, reports,
                 total, uaf, rd, wr>>

\* lines 68-82: the loop test and, for an active worker with a partner, the
\* two reads of partial_sums[tid] += partial_sums[tid + step]; a worker with
\* nothing to add goes on to step *= 2
While(t) ==
  /\ UNCHANGED intVars
  /\ Running /\ wpc[t] = "while"
  /\ IF InLoop(step[t], w_m[t])
       THEN IF Active(tid[t], step[t]) /\ HasPartner(tid[t], step[t], w_m[t])
              THEN /\ acc' = [acc EXCEPT ![t] =
                                FAdd(partial_sums[tid[t]],
                                     partial_sums[tid[t] + step[t]])]
                   /\ rd' = [rd EXCEPT ![tid[t]] = @ \cup {t},
                                       ![tid[t] + step[t]] = @ \cup {t}]
                   /\ wpc' = [wpc EXCEPT ![t] = "add_store"]
                   /\ UNCHANGED step
              ELSE /\ step' = [step EXCEPT ![t] = NextStep(@)]
                   /\ wpc' = [wpc EXCEPT ![t] = "barrier"]
                   /\ UNCHANGED <<acc, rd>>
       ELSE /\ wpc' = [wpc EXCEPT ![t] = "final"]
            /\ UNCHANGED <<step, acc, rd>>
  /\ UNCHANGED <<mainVars, outcome, tableSt, partial_sums, barrierVars, tid,
                 w_m, w_n, start, end, local_sum, seen, arr, waits, reports,
                 total, uaf, wr>>

\* lines 73 and 82: the write of partial_sums[tid] += ..., then step *= 2
AddStore(t) ==
  /\ UNCHANGED intVars
  /\ Running /\ wpc[t] = "add_store"
  /\ partial_sums' = [partial_sums EXCEPT ![tid[t]] = acc[t]]
  /\ wr' = [wr EXCEPT ![tid[t]] = @ \cup {t}]
  /\ step' = [step EXCEPT ![t] = NextStep(@)]
  /\ wpc' = [wpc EXCEPT ![t] = "barrier"]
  /\ UNCHANGED <<mainVars, outcome, tableSt, barrierVars, tid, w_m, w_n, start,
                 end, local_sum, acc, seen, arr, waits, reports, total, uaf, rd>>

\* lines 89-95: thread 0 prints partial_sums[0]; every thread returns
Final(t) ==
  /\ UNCHANGED intVars
  /\ Running /\ wpc[t] = "final"
  /\ IF PrintsTotal(tid[t])
       THEN /\ total' = Append(total, partial_sums[0])
            /\ rd' = [rd EXCEPT ![0] = @ \cup {t}]
       ELSE UNCHANGED <<total, rd>>
  /\ wpc' = [wpc EXCEPT ![t] = "done"]
  /\ UNCHANGED <<mainVars, outcome, tableSt, partial_sums, barrierVars,
                 workerLocals, seen, arr, waits, reports, uaf, wr>>

compute_quadruple_roots(t) ==
  \/ Entry(t) \/ Store(t) \/ Report(t) \/ BarrierArrive(t) \/ BarrierReturn(t)
  \/ While(t) \/ AddStore(t) \/ Final(t)

----------------------------------------------------------------------------

Next ==
  \/ main
  \/ \E t \in Workers : compute_quadruple_roots(t)

Spec == Init /\ [][Next]_vars

\* the threads are scheduled fairly: main and every worker keep taking steps
FairSpec ==
  /\ Spec
  /\ WF_vars(main)
  /\ \A t \in 0..MaxM : WF_vars(t \in Workers /\ compute_quadruple_roots(t))

----------------------------------------------------------------------------
(* The int arithmetic of one worker at the width of int.  IntSpec follows    *)
(* the integer expressions of compute_quadruple_roots for every m, n and tid *)
(* that fit an int; the threads do not share these values, so one worker is  *)
(* followed at a time and the barrier is left out.  A signed overflow is     *)
(* undefined: the value wraps, or the program traps.                         *)

IntMax == Pow2(IntBits - 1) - 1
IntMin == 0 - Pow2(IntBits - 1)

InInt(x) == IntMin <= x /\ x <= IntMax

Wrap(x) == ((x - IntMin) % Pow2(IntBits)) + IntMin

IntInit ==
  /\ m \in 1..IntMax
  /\ n \in 1..IntMax
  /\ \E t \in Workers :
       wpc = [u \in Workers |-> IF u = t THEN "int_range" ELSE "notcreated"]
  /\ InitRest

intFrame == <<mainVars, outcome, tableSt, partial_sums, barrierVars, local_sum,
              acc, seen, arr, waits, reports, total, uaf, rd, wr>>

\* lines 25-38: tid, m, n, then start and end
IntRange(t) ==
  /\ wpc[t] = "int_range"
  /\ tid' = [tid EXCEPT ![t] = t]
  /\ w_m' = [w_m EXCEPT ![t] = m]
  /\ w_n' = [w_n EXCEPT ![t] = n]
  /\ LET q == n \div m
         s0 == Wrap(Wrap(t * q) + 1)
         e0 == Wrap((t + 1) * q)
     IN /\ start' = [start EXCEPT ![t] = s0]
        /\ end' = [end EXCEPT ![t] = IF t = m - 1 THEN n ELSE e0]
        /\ loop_i' = [loop_i EXCEPT ![t] = s0]
        /\ ovf' = (ovf \/ ~InInt(t * q) \/ ~InInt(t * q + 1)
                       \/ ~InInt((t + 1) * q))
  /\ wpc' = [wpc EXCEPT ![t] = "int_for"]
  /\ UNCHANGED <<intFrame, step>>

\* lines 42-44: the test i <= end, and after the body i++
IntFor(t) ==
  /\ wpc[t] = "int_for"
  /\ IF loop_i[t] <= end[t]
       THEN /\ UNCHANGED step
            /\ IF InInt(loop_i[t] + 1)
                 THEN /\ loop_i' = [loop_i EXCEPT ![t] = @ + 1]
                      /\ UNCHANGED <<ovf, wpc>>
                 ELSE /\ ovf' = TRUE
                      /\ \/ /\ loop_i' = [loop_i EXCEPT ![t] = Wrap(@ + 1)]
                            /\ UNCHANGED wpc
                         \/ /\ wpc' = [wpc EXCEPT ![t] = "int_trap"]
                            /\ UNCHANGED loop_i
       ELSE /\ wpc' = [wpc EXCEPT ![t] = "int_while"]
            /\ step' = [step EXCEPT ![t] = 1]
            /\ UNCHANGED <<loop_i, ovf>>
  /\ UNCHANGED <<intFrame, tid, w_m, w_n, start, end>>

\* lines 67-82: the test step < m, 2 * step in tid % (2 * step), step *= 2
IntWhile(t) ==
  /\ wpc[t] = "int_while"
  /\ IF InLoop(step[t], w_m[t])
       THEN IF ~InInt(2 * step[t])
              THEN /\ ovf' = TRUE
                   /\ \/ /\ step' = [step EXCEPT ![t] = Wrap(NextStep(@))]
                         /\ UNCHANGED wpc
                      \/ /\ wpc' = [wpc EXCEPT ![t] = "int_trap"]
                         /\ UNCHANGED step
              ELSE IF 2 * step[t] = 0
                     THEN /\ wpc' = [wpc EXCEPT ![t] = "int_trap"]
                          /\ UNCHANGED <<step, ovf>>
                     ELSE /\ step' = [step EXCEPT ![t] = NextStep(@)]
                          /\ UNCHANGED <<wpc, ovf>>
       ELSE /\ wpc' = [wpc EXCEPT ![t] = "int_done"]
            /\ UNCHANGED <<step, ovf>>
  /\ UNCHANGED <<intFrame, tid, w_m, w_n, start, end, loop_i>>

IntNext ==
  \/ \E t \in Workers : IntRange(t)
  \/ \E t \in Workers : IntFor(t)
  \/ \E t \in Workers : IntWhile(t)

IntSpec == IntInit /\ [][IntNext]_vars

----------------------------------------------------------------------------
(* Properties *)

Created == {t \in Workers : wpc[t] # "notcreated"}
Alive == {t \in Workers : wpc[t] \notin {"notcreated", "done"}}

\* v adds pow(k, 0.25) exactly once for every k of 1..nn and nothing else, as
\* the sequential sum over 1..nn does
SumsOneToN(v, nn) ==
  /\ \A p \in 1..Len(v) : v[p] <= nn
  /\ \A k \in 1..nn : Count(v, k) = 1 /\ Count(SumLoop(1, nn, FZero), k) = 1

\* C1: whenever the total is read from slot 0 and printed (line 91), and
\* whenever all m workers have returned, slot 0 accounts for every integer of
\* 1..n exactly once, like the sequential sum, for every m and interleaving.
TotalIsSumOneToN ==
  /\ \A p \in 1..Len(total) : SumsOneToN(total[p], n)
  /\ (ValidArgs(m, n) /\ tableSt = "alloc" /\ \A t \in Workers : wpc[t] = "done")
       => SumsOneToN(partial_sums[0], n)

TotalRead == total # <<>> /\ m = 3 /\ n = 4

\* C2: the ranges [start, end] of the worker ids 0..m-1 are pairwise disjoint
\* and every integer of 1..n lies in exactly one of them.
PartitionProperty ==
  ValidArgs(m, n) =>
    /\ \A k \in 1..n :
         Cardinality({t \in Workers :
                        RangeStart(t, m, n) <= k /\ k <= RangeEnd(t, m, n)}) = 1
    /\ \A t \in Workers :
         \A k \in RangeStart(t, m, n)..RangeEnd(t, m, n) : k \in 1..n

AllRangesComputed ==
  /\ m = 3 /\ n = 4 /\ ~uaf
  /\ \A t \in Workers : /\ wpc[t] = "store"
                        /\ start[t] = RangeStart(t, m, n)
                        /\ end[t] = RangeEnd(t, m, n)

\* C3: between two consecutive barrier releases no slot of the table is
\* written by more than one worker, and a slot written by one worker is
\* neither read nor written by another.
RaceFree ==
  \A s \in DOMAIN wr :
    /\ Cardinality(wr[s]) <= 1
    /\ wr[s] # {} => rd[s] \subseteq wr[s]

SlotAddedInSecondRound ==
  /\ m = 3 /\ generation = 2
  /\ wr[0] = {0} /\ rd[0] = {0} /\ rd[2] = {0} /\ wr[2] = {}

\* C4: a worker has returned from its k-th barrier wait only if every one of
\* the m workers has called its k-th wait; so a worker that has read its
\* partner's slot in a round does so after the partner's wait call that ended
\* the previous round, and while some worker has not arrived nobody is past
\* that barrier.
ReturnOnlyAfterAllArrived ==
  /\ \A t \in Workers : \A u \in Workers : waits[t] <= arr[u]
  /\ \A t \in Workers :
       wpc[t] = "add_store" =>
         /\ arr[tid[t] + step[t]] >= waits[t]
         /\ wpc[tid[t] + step[t]] \notin {"entry", "store", "report", "add_store"}

SecondRoundPassed ==
  /\ m = 3
  /\ \E t \in Workers : waits[t] = 2 /\ wpc[t] = "add_store"

RECURSIVE SumTo(_, _)
SumTo(f, k) == IF k < 0 THEN 0 ELSE f[k] + SumTo(f, k - 1)

\* C5: the number of waiting arrivals stays below parties = m, every full set
\* of m arrivals gives exactly one release that resets the count, no worker
\* arrives for round k+1 before every worker arrived for round k, and the
\* rounds completed by two workers differ by at most 1.
BarrierRounds ==
  ValidArgs(m, n) /\ barrierSt # "uninit" =>
    /\ parties = m
    /\ arrivals <= m /\ arrivals < parties
    /\ SumTo(arr, m - 1) = generation * m + arrivals
    /\ \A t \in Workers : \A u \in Workers :
         /\ arr[t] <= arr[u] + 1
         /\ waits[t] <= waits[u] + 1

BarrierReused == m = 3 /\ generation = 2 /\ arrivals = 2

AllCreated == mainpc = "join"

Released ==
  /\ outcome = "Ok"
  /\ \A t \in Workers : wpc[t] = "done"
  /\ tableSt = "freed" /\ barrierSt = "destroyed"

\* C6: under fair scheduling, once all m workers are created every worker
\* returns and main joins them all and releases the table and the barrier.
Terminates == AllCreated ~> Released

Finished == m = 3 /\ n = 4 /\ Released

\* C7: on a failure to create worker i, no created worker is alive when the
\* table is freed, no worker touches the table after it is freed, and neither
\* the table nor the barrier is left unreleased.
PartialLaunchSafe ==
  /\ tableSt = "freed" => Alive = {}
  /\ ~uaf
  /\ outcome = "WorkerLaunchFailure" => tableSt # "alloc" /\ barrierSt # "init"

\* C8: on every exit of main every resource acquired before it is released:
\* table, barrier, threads array and argument array.
ReleasedOnEveryExit ==
  mainpc = "exit" =>
    /\ tableSt # "alloc"
    /\ barrierSt # "init"
    /\ threadsSt # "alloc"
    /\ argsSt # "alloc"

\* C9: a run that ended with InvalidArgument, AllocationFailure or
\* WorkerLaunchFailure has printed no per-worker partial sum and no total.
NoReportOnFailure ==
  outcome \in {"InvalidArgument", "AllocationFailure", "WorkerLaunchFailure"} =>
    /\ \A t \in Workers : reports[t] = <<>>
    /\ total = <<>>

\* C10: with thread_count <= 0 or upper_bound <= 0 main ends with
\* InvalidArgument and nothing is computed: no table, no barrier, no worker,
\* no slot written.
InvalidArgsRejected ==
  (m <= 0 \/ n <= 0) =>
    /\ mainpc # "validate" => outcome = "InvalidArgument" /\ mainpc = "exit"
    /\ tableSt = "none" /\ barrierSt = "uninit"
    /\ threadsSt = "none" /\ argsSt = "none"
    /\ Created = {}
    /\ \A s \in DOMAIN wr : wr[s] = {}
    /\ ~uaf

RejectedNegativeBound == m = 3 /\ n = -1 /\ outcome = "InvalidArgument"

\* C11: for n < m nothing goes wrong: a worker that is not the last one has
\* an empty range, runs no iteration and stores 0.0 in its own slot, the last
\* one covers 1..n, every index used on the table lies in 0..m-1, and the
\* total printed from slot 0 is the sum over 1..n.
FewerNumbersThanWorkers ==
  (m >= 1 /\ n >= 1 /\ n < m) =>
    /\ outcome # "Crashed" \/ uaf
    /\ \A t \in Workers :
         wpc[t] \notin {"notcreated", "entry"} =>
           /\ tid[t] \in 0..(m - 1)
           /\ tid[t] # m - 1 => start[t] > end[t] /\ local_sum[t] = <<0>>
           /\ tid[t] = m - 1 => start[t] = 1 /\ end[t] = n
    /\ \A s \in Workers :
         (generation = 0 /\ wr[s] # {} /\ s # m - 1) =>
           wr[s] = {s} /\ partial_sums[s] = <<0>>
    /\ \A t \in Workers :
         (wpc[t] = "while" /\ step[t] < m /\ tid[t] % (2 * step[t]) = 0
            /\ HasPartner(tid[t], step[t], w_m[t])) =>
           tid[t] + step[t] \in 0..(m - 1)
    /\ \A p \in 1..Len(total) : SumsOneToN(total[p], n)
    /\ outcome = "Ok" => total # <<>>

TotalWithIdleWorkers ==
  /\ m = 3 /\ n = 2 /\ outcome = "Ok"
  /\ partial_sums[1] = <<0>> /\ reports[0] = << <<0, 1, 0, <<0>> >> >>

\* C12: with m = 1 the single worker has the range 1..n, makes exactly one
\* barrier wait, released by its own arrival, never runs the body of the
\* reduction loop, and slot 0 holds the direct loop sum.
SingleWorker ==
  (m = 1 /\ n >= 1) =>
    /\ wpc[0] \notin {"notcreated", "entry"} => start[0] = 1 /\ end[0] = n
    /\ wpc[0] \notin {"blocked", "add_store"}
    /\ arr[0] <= 1 /\ waits[0] = arr[0] /\ generation = arr[0]
    /\ step[0] \in {0, 1}
    /\ wpc[0] \in {"final", "done"} =>
         /\ arr[0] = 1
         /\ partial_sums[0] = SumLoop(1, n, <<0>>)
    /\ wpc[0] = "done" => total = <<SumLoop(1, n, <<0>>)>>

SingleWorkerDone == m = 1 /\ n = 4 /\ wpc[0] = "done" /\ outcome = "Ok"

\* C13: each worker prints its report exactly once, after the store into its
\* own slot and before its first barrier wait; the total is printed exactly
\* once, after all m reports and after the last write to the table, so it is
\* the final content of slot 0.
ReportsInOrder ==
  /\ \A t \in Workers :
       /\ Len(reports[t]) =
            IF wpc[t] \in {"notcreated", "entry", "store", "report"} THEN 0 ELSE 1
       /\ reports[t] = <<>> => arr[t] = 0
       /\ (reports[t] # <<>> /\ tableSt = "alloc" /\ generation = 0) =>
            partial_sums[reports[t][1][1]] = reports[t][1][4]
  /\ Len(total) <= 1
  /\ total # <<>> =>
       /\ \A t \in Workers :
            /\ Len(reports[t]) = 1
            /\ wpc[t] \in {"blocked", "while", "final", "done"}
            /\ step[t] >= m
       /\ total[1] = partial_sums[0]
  /\ outcome = "Ok" => Len(total) = 1

TotalAfterReports ==
  /\ m = 3 /\ n = 4 /\ Len(total) = 1
  /\ \E t \in Workers : wpc[t] = "blocked"

\* v adds pow(k, 0.25) exactly once for every k in the ranges of the worker
\* ids j .. j + size - 1 that exist, and nothing else
HoldsBlock(v, j, size) ==
  /\ \A p \in 1..Len(v) : v[p] <= n
  /\ \A k \in 1..n :
       Count(v, k) =
         IF \E t \in Workers :
              /\ j <= t /\ t < j + size
              /\ t * (n \div m) + 1 <= k
              /\ k <= (IF t = m - 1 THEN n ELSE (t + 1) * (n \div m))
           THEN 1 ELSE 0

\* C14: after phase 1 slot j holds the partial sum of worker j; in the round
\* with step 2^k every slot j with j mod 2^k = 0 holds the partial sums of the
\* workers j .. j + 2^k - 1 that exist, each once, and after the round's
\* update those of the workers j .. j + 2^(k+1) - 1.
ReductionInvariant ==
  (m >= 1 /\ n >= 1 /\ generation >= 1) =>
    \A j \in Workers :
      j % Pow2(generation - 1) = 0 =>
        HoldsBlock(partial_sums[j], j,
                   IF wr[j] # {} THEN Pow2(generation) ELSE Pow2(generation - 1))

BlockOfFourFormed ==
  /\ m = 3 /\ n = 4 /\ generation = 2 /\ wr[0] = {0}
  /\ Count(partial_sums[0], 4) = 1 /\ Count(partial_sums[2], 4) = 1

UpdateCondition(t, s) == t % (2 * s) = 0 /\ t + s < m

SlotUpdatesState ==
  /\ {t \in 0..7 : Active(t, 1) /\ HasPartner(t, 1, 8)} = {0, 2, 4, 6}
  /\ {t \in 0..7 : Active(t, 2) /\ HasPartner(t, 2, 8)} = {0, 4}
  /\ {t \in 0..7 : Active(t, 4) /\ HasPartner(t, 4, 8)} = {0}
  /\ \A s \in DOMAIN wr : wr[s] \subseteq {s}
  /\ \A t \in Workers :
       /\ wpc[t] = "add_store" => UpdateCondition(tid[t], step[t])
       /\ (wpc[t] = "barrier" /\ arr[t] >= 1) =>
            (t \in wr[tid[t]] <=> UpdateCondition(tid[t], step[t] \div 2))
       /\ wpc[t] \in {"while", "add_store"} =>
            \A k \in 0..generation :
              (Pow2(k) < step[t] /\ tid[t] % (2 * Pow2(k)) # 0) =>
                tid[t] % (2 * step[t]) # 0

SlotUpdatesStep ==
  (tableSt = "alloc" /\ tableSt' = "alloc") =>
    \A s \in Workers :
      partial_sums'[s] # partial_sums[s] =>
        \/ /\ wpc[s] = "store" /\ wpc'[s] = "report"
           /\ partial_sums'[s] = local_sum[s]
        \/ /\ wpc[s] = "add_store" /\ wpc'[s] = "barrier"
           /\ UpdateCondition(s, step[s])
           /\ partial_sums'[s] =
                <<-1>> \o partial_sums[s] \o partial_sums[s + step[s]]
           /\ \A k \in 0..generation :
                Pow2(k) < step[s] => s % (2 * Pow2(k)) = 0

\* C15: in the round with step s worker tid does slot[tid] += slot[tid + s]
\* exactly when tid mod 2s = 0 and tid + s < m, and otherwise changes nothing;
\* a slot is only ever written by its own worker, and a worker that was
\* inactive in a round is inactive later, so its slot does not change again.
SlotUpdates == []SlotUpdatesState /\ [][SlotUpdatesStep]_vars

ActiveAndInactiveInRound ==
  /\ m = 3 /\ generation = 2
  /\ wpc[0] = "barrier" /\ wr[0] = {0}
  /\ wpc[1] = "barrier" /\ wr[1] = {} /\ wpc[2] = "barrier" /\ wr[2] = {}

\* least r with 2^r >= k
CeilLog2(k) == CHOOSE r \in 0..k : Pow2(r) >= k /\ \A q \in 0..(r - 1) : Pow2(q) < k

\* C16: every worker, active or not, makes exactly 1 + ceil(log2(m)) barrier
\* waits, one after phase 1 and one per reduction round, so all m workers
\* make the same number and every barrier round is released.
SameNumberOfWaits ==
  (m >= 1 /\ n >= 1) =>
    \A t \in Workers :
      /\ arr[t] <= 1 + CeilLog2(m)
      /\ wpc[t] \in {"final", "done"} =>
           /\ arr[t] = 1 + CeilLog2(m)
           /\ waits[t] = 1 + CeilLog2(m)
           /\ generation = 1 + CeilLog2(m)
           /\ arrivals = 0

ThreeWaitsEach ==
  /\ m = 3
  /\ \A t \in Workers : wpc[t] = "done" /\ arr[t] = 3 /\ waits[t] = 3

\* C17 as stated: a worker calls the barrier's wait of a round before its
\* step doubles, so at the wait call that ends the round with step 2^r the
\* step still is 2^r.
WaitBeforeStepDoubles ==
  \A t \in Workers :
    (wpc[t] = "barrier" /\ arr[t] >= 1) => step[t] = Pow2(arr[t] - 1)

\* C17 as amended: after every round, active or not, the worker doubles its
\* step and then calls the barrier's wait; the next round begins only after
\* that wait has returned.
StepDoublesBeforeWait ==
  \A t \in Workers :
    /\ (wpc[t] = "barrier" /\ arr[t] >= 1) => step[t] = Pow2(arr[t])
    /\ wpc[t] \in {"while", "add_store"} =>
         /\ waits[t] = arr[t] /\ waits[t] >= 1
         /\ step[t] = Pow2(waits[t] - 1)

DoubledThenWaiting ==
  /\ m = 3
  /\ wpc[0] = "barrier" /\ arr[0] = 2 /\ step[0] = 4 /\ wr[0] = {0}
  /\ wpc[1] = "barrier" /\ arr[1] = 2 /\ step[1] = 4

\* C18: a worker's range is start = id * (n div m) + 1 and
\* end = (id + 1) * (n div m), but end = n for id = m - 1; so a worker other
\* than the last covers n div m integers and the last one n div m + n mod m;
\* compute(4, 100) gives 1..25, 26..50, 51..75, 76..100.
AssignedRange ==
  /\ [t \in 0..3 |-> <<RangeStart(t, 4, 100), RangeEnd(t, 4, 100)>>]
       = [t \in 0..3 |-> <<25 * t + 1, 25 * t + 25>>]
  /\ \A t \in Workers :
       wpc[t] \notin {"notcreated", "entry"} =>
         LET q == w_n[t] \div w_m[t] IN
           /\ start[t] = tid[t] * q + 1
           /\ tid[t] # w_m[t] - 1 =>
                end[t] = (tid[t] + 1) * q /\ end[t] - start[t] + 1 = q
           /\ tid[t] = w_m[t] - 1 =>
                end[t] = w_n[t] /\ end[t] - start[t] + 1 = q + (w_n[t] % w_m[t])

RemainderToLastWorker ==
  /\ m = 3 /\ n = 4 /\ ~uaf
  /\ wpc[0] = "report" /\ start[0] = 1 /\ end[0] = 1
  /\ wpc[2] = "report" /\ start[2] = 3 /\ end[2] = 4

\* ((0.0 + pow(lo)) + ...) + pow(hi), the sum a worker builds over lo..hi
RECURSIVE ReferenceSum(_, _)
ReferenceSum(lo, hi) ==
  IF hi < lo THEN <<0>> ELSE <<-1>> \o ReferenceSum(lo, hi - 1) \o <<hi>>

\* the expression slot j holds when the round with step s begins, as a
\* function of m and n alone
RECURSIVE SlotAt(_, _)
SlotAt(j, s) ==
  IF s <= 1
    THEN ReferenceSum(j * (n \div m) + 1,
                      IF j = m - 1 THEN n ELSE (j + 1) * (n \div m))
    ELSE IF j % s = 0 /\ j + (s \div 2) < m
           THEN <<-1>> \o SlotAt(j, s \div 2) \o SlotAt(j + (s \div 2), s \div 2)
           ELSE SlotAt(j, s \div 2)

\* C20: the values the run ends with do not depend on the interleaving: once
\* all workers have returned every slot holds the expression fixed by m and
\* n, built in the same order of additions, and so does the printed total.
ScheduleIndependent ==
  (m >= 1 /\ n >= 1 /\ \A t \in Workers : wpc[t] = "done") =>
    /\ \A j \in Workers : partial_sums[j] = SlotAt(j, Pow2(CeilLog2(m)))
    /\ total = <<SlotAt(0, Pow2(CeilLog2(m)))>>

SameTreeEveryRun ==
  /\ m = 3 /\ n = 4 /\ \A t \in Workers : wpc[t] = "done"
  /\ partial_sums[0] = <<-1, -1, -1, 0, 1, -1, 0, 2, -1, -1, 0, 3, 4>>
  /\ partial_sums[2] = <<-1, -1, 0, 3, 4>>

\* C19: for every m >= 1 and n >= 1 that fit an int, n = INT_MAX included,
\* no int expression of a worker leaves the range of int (the range bounds,
\* the loop counter when incremented past end, 2 * step, step *= 2); so the
\* summation loop runs max(0, end - start + 1) times and exits, and the
\* reduction loop exits once step >= m.
NoIntOverflow ==
  /\ ~ovf
  /\ \A t \in Workers :
       /\ wpc[t] # "int_trap"
       /\ wpc[t] \in {"int_for", "int_while", "int_done"} =>
            start[t] = t * (n \div m) + 1 /\ loop_i[t] <= end[t] + 1
       /\ wpc[t] \in {"int_while", "int_done"} =>
            loop_i[t] = (IF start[t] <= end[t] THEN end[t] + 1 ELSE start[t])
       /\ wpc[t] = "int_done" => step[t] >= m /\ step[t] < 2 * m

====
